---- MODULE Spec2Model ----
(***************************************************************************)
(* Habit tracker: the heat-map date grid (HabitHeatmap.heatmapData), the   *)
(* click handler with its optimistic cache update and the upsert mutation  *)
(* (HabitHeatmap.handleDayClick, upsertEntry), and the habitEntry router   *)
(* the client talks to.                                                    *)
(*                                                                         *)
(* Time.  A Date is an instant, counted in whole hours since               *)
(* 1970-01-01T00:00Z.  The JavaScript Date methods the code calls are      *)
(* modelled by what they do in a time zone: setHours(0,0,0,0), setDate,    *)
(* getDay and new Date(y, m, d) work on the local wall clock, while        *)
(* toISOString().split("T")[0] is the UTC calendar date of the instant.    *)
(* A calendar date is a day number (days since 1970-01-01).                *)
(***************************************************************************)
EXTENDS Integers, Sequences, FiniteSets, TLC

VARIABLES
    now,            \* the wall clock: new Date() on the client and on the server
    tz,             \* the browser's time zone
    stz,            \* the server's time zone
    habit,          \* props.habit: [id, dailyGoal]
    days,           \* props.days
    selectedYear,   \* props.selectedYear: Null in the rolling view, else a year
    entries,        \* props.entries of a stand-alone HabitHeatmap render
    heatmapData,    \* the weeks that render produced
    pc,             \* position of the stand-alone render: "props" or "rendered"
    db,             \* the server's habitEntry table
    queryData,      \* the query cache's data for getLastNDays({habitId, days})
    fetch,          \* the getLastNDays request of that query, if one is in flight;
                    \* by: the click whose failed mutation asked for it, 0 for the first fetch
    mutations,      \* the upsert mutations in flight, in click order
    clicks,         \* how many times handleDayClick ran
    error,          \* HabitHeatmap's error state: "" stands for null
    timers,         \* pending setTimeout(() => setError(null), 3000) callbacks
    habits,         \* the server's habit table
    calls,          \* increment requests between their findUnique and their write
    response,       \* what the last router call answered: [n, op, code, data]
    background,     \* the backgroundColor style of a painted cell
    habitsQuery,    \* HabitsDashboard's habit.getAllActive query: [isLoading, data]
    entriesQueries, \* its getLastNDays queries, one per habit of the list: [habitId, data]
    memo,           \* its useMemo values: [earliestYear, availableYears]
    celebration     \* a mounted HabitCellCelebration: its props, state and timeout

\* the variables of the router calls and of the cell style
routerVars == <<habits, calls, response>>

\* the variables of the dashboard with several habits and of the celebration
pageVars == <<habitsQuery, entriesQueries, memo, celebration>>

vars == <<now, tz, stz, habit, days, selectedYear, entries, heatmapData, pc,
          db, queryData, fetch, mutations, clicks, error, timers,
          habits, calls, response, background,
          habitsQuery, entriesQueries, memo, celebration>>

(***************************************************************************)
(* Bounds of the model.                                                    *)
(***************************************************************************)
MaxDays == 3
MaxGoal == 2
MaxClicks == 3

(***************************************************************************)
(* Calendar and time zones (the JavaScript Date runtime).                  *)
(***************************************************************************)
HoursPerDay == 24

Null == 0

CalendarYears == 2022..2026

IsLeap(y) == (y % 4 = 0 /\ y % 100 # 0) \/ y % 400 = 0

LeapDaysBefore(y) == ((y - 1) \div 4) - ((y - 1) \div 100) + ((y - 1) \div 400)

\* Day number of January 1 of year y.
JanFirst(y) == 365 * (y - 1970) + LeapDaysBefore(y) - LeapDaysBefore(1970)

\* Days in month m (0 = January, as in new Date(y, m, d)) of year y.
DaysInMonth(y, m) ==
    IF m = 1 THEN (IF IsLeap(y) THEN 29 ELSE 28)
    ELSE IF m \in {3, 5, 8, 10} THEN 30 ELSE 31

RECURSIVE DaysBeforeMonth(_, _)
DaysBeforeMonth(y, m) ==
    IF m = 0 THEN 0 ELSE DaysBeforeMonth(y, m - 1) + DaysInMonth(y, m - 1)

\* Day number of the calendar date y-(m+1)-d.
DayOf(y, m, d) == JanFirst(y) + DaysBeforeMonth(y, m) + (d - 1)

YearOf(day) == CHOOSE y \in CalendarYears : JanFirst(y) <= day /\ day < JanFirst(y + 1)

\* 0 = Sunday ... 6 = Saturday; 1970-01-01 was a Thursday.
Weekday(day) == (day + 4) % 7

SundayOnOrAfter(day) == day + ((7 - Weekday(day)) % 7)

SundayOnOrBefore(day) == day - Weekday(day)

\* Time zones: the standard offset from UTC in hours and the daylight-saving rule.
UTC == [name |-> "UTC", std |-> 0, dst |-> "none"]

NewYork == [name |-> "America/New_York", std |-> 0 - 5, dst |-> "US"]

London == [name |-> "Europe/London", std |-> 0, dst |-> "EU"]

Tokyo == [name |-> "Asia/Tokyo", std |-> 9, dst |-> "none"]

\* First instant (in hours of the zone's standard time) of daylight saving in year y.
DstStart(zone, y) ==
    IF zone.dst = "US"
    THEN HoursPerDay * SundayOnOrAfter(DayOf(y, 2, 8)) + 2
    ELSE HoursPerDay * SundayOnOrBefore(DayOf(y, 2, 31)) + 1 + zone.std

\* First instant (in hours of the zone's standard time) after daylight saving in year y.
DstEnd(zone, y) ==
    IF zone.dst = "US"
    THEN HoursPerDay * SundayOnOrAfter(DayOf(y, 10, 1)) + 1
    ELSE HoursPerDay * SundayOnOrBefore(DayOf(y, 9, 31)) + 1 + zone.std

IsDst(zone, t) ==
    /\ zone.dst # "none"
    /\ LET s == t + zone.std
           y == YearOf(s \div HoursPerDay)
       IN  DstStart(zone, y) <= s /\ s < DstEnd(zone, y)

\* Hours to add to an instant to get the zone's wall clock.
OffsetAt(zone, t) == zone.std + (IF IsDst(zone, t) THEN 1 ELSE 0)

\* The wall clock of the zone at instant t, in hours since 1970-01-01T00:00 local.
LocalTime(zone, t) == t + OffsetAt(zone, t)

\* The instant at which the zone's wall clock shows w.
FromLocal(zone, w) ==
    LET t1 == w - zone.std - 1
    IN  IF IsDst(zone, t1) THEN t1 ELSE w - zone.std

\* date.setHours(0, 0, 0, 0)
SetHoursZero(zone, t) == FromLocal(zone, HoursPerDay * (LocalTime(zone, t) \div HoursPerDay))

\* date.setDate(date.getDate() + k)
AddDays(zone, t, k) == FromLocal(zone, LocalTime(zone, t) + HoursPerDay * k)

\* new Date(y, m, d)
NewDate(zone, y, m, d) == FromLocal(zone, HoursPerDay * DayOf(y, m, d))

\* date.getDay()
GetDay(zone, t) == Weekday(LocalTime(zone, t) \div HoursPerDay)

\* date.getFullYear()
GetFullYear(zone, t) == YearOf(LocalTime(zone, t) \div HoursPerDay)

\* date.toISOString().split("T")[0]: the UTC calendar date, as a day number
ISODate(t) == t \div HoursPerDay

\* The local calendar date of an instant, as a day number.
LocalDay(zone, t) == LocalTime(zone, t) \div HoursPerDay

\* Math.ceil(a / b) for b > 0
Ceil(a, b) == 0 - ((0 - a) \div b)

(***************************************************************************)
(* HabitHeatmap.heatmapData                                                *)
(***************************************************************************)
NullCell == [isNull |-> TRUE]

\* count / dailyGoal without the cap at 1
IntensityUncapped(count, dailyGoal) == [n |-> count, d |-> dailyGoal]

\* Math.min(count / dailyGoal, 1) as a fraction n/d
Intensity(count, dailyGoal) ==
    IF count >= dailyGoal THEN [n |-> 1, d |-> 1] ELSE [n |-> count, d |-> dailyGoal]

\* entryMap: date string -> count, a later entry replacing an earlier one
EntryMap(es) ==
    [s \in {ISODate(es[i].date) : i \in 1..Len(es)} |->
        LET last == CHOOSE i \in 1..Len(es) :
                        /\ ISODate(es[i].date) = s
                        /\ \A j \in 1..Len(es) : ISODate(es[j].date) = s => j <= i
        IN  es[last].count]

\* the body of the loop that generates all days
DayCell(entryMap, dailyGoal, zone, today, alignedStartDate, i) ==
    LET date == AddDays(zone, alignedStartDate, i)
        dateStr == ISODate(date)
        count == IF dateStr \in DOMAIN entryMap THEN entryMap[dateStr] ELSE 0
    IN  [date |-> date,
         count |-> count,
         intensity |-> Intensity(count, dailyGoal),
         isToday |-> (dateStr = ISODate(today))]

\* allDays.slice(i, i + 7) for i = 0, 7, 14, ...
Weeks(allDays) ==
    [w \in 1..Ceil(Len(allDays), 7) |->
        SubSeq(allDays, 7 * (w - 1) + 1, IF 7 * w <= Len(allDays) THEN 7 * w ELSE Len(allDays))]

HeatmapData(h, es, nDays, year, zone, clock) ==
    LET entryMap == EntryMap(es)
        today == SetHoursZero(zone, clock)
        startDate == IF year # Null THEN NewDate(zone, year, 0, 1)
                     ELSE AddDays(zone, today, 0 - (nDays - 1))
        endDate == IF year # Null THEN SetHoursZero(zone, NewDate(zone, year, 11, 31))
                   ELSE today
        alignedStartDate == AddDays(zone, startDate, 0 - GetDay(zone, startDate))
        totalDays == Ceil(endDate - alignedStartDate, HoursPerDay) + 1
        daysToAdd == 6 - GetDay(zone, endDate)
        allDays == [k \in 1..(totalDays + daysToAdd) |->
                       IF k <= totalDays
                       THEN DayCell(entryMap, h.dailyGoal, zone, today, alignedStartDate, k - 1)
                       ELSE NullCell]
    IN  Weeks(allDays)

(***************************************************************************)
(* habitEntryRouter: the two procedures the dashboard calls.  rows is the  *)
(* habit table, tbl the habitEntry table, user ctx.session.user.id, zone   *)
(* the server's time zone.                                                 *)
(***************************************************************************)
\* a check that only asks whether the habit exists
HabitExists(rows, user, habitId) == \E h \in rows : h.id = habitId

\* !habit?.userId || habit.userId !== ctx.session.user.id  =>  UNAUTHORIZED
OwnsHabit(rows, user, habitId) == \E h \in rows : h.id = habitId /\ h.userId = user

\* orderBy: { date: "asc" }
RECURSIVE OrderByDate(_)
OrderByDate(S) ==
    IF S = {} THEN <<>>
    ELSE LET first == CHOOSE e \in S : \A o \in S : e.date < o.date \/ (e.date = o.date /\ e.id <= o.id)
         IN  <<first>> \o OrderByDate(S \ {first})

GetLastNDays(rows, tbl, user, zone, clock, input) ==
    IF ~OwnsHabit(rows, user, input.habitId)
    THEN [code |-> "UNAUTHORIZED"]
    ELSE LET endDate == clock
             startDate == AddDays(zone, clock, 0 - input.days)
         IN  [code |-> "OK",
              data |-> OrderByDate({e \in tbl : /\ e.habitId = input.habitId
                                                /\ e.date >= startDate
                                                /\ e.date <= endDate})]

\* the id the database gives a created row
NewId(tbl) == IF tbl = {} THEN 1 ELSE 1 + (CHOOSE n \in {e.id : e \in tbl} : \A e \in tbl : e.id <= n)

\* an upsert that creates a row without looking for the one of the pair
UpsertAlwaysCreates(rows, tbl, user, zone, input) ==
    IF ~OwnsHabit(rows, user, input.habitId)
    THEN [code |-> "UNAUTHORIZED", db |-> tbl]
    ELSE LET created == [id |-> NewId(tbl), habitId |-> input.habitId,
                         date |-> SetHoursZero(zone, input.date), count |-> input.count]
         IN  [code |-> "OK", db |-> tbl \cup {created}, data |-> created]

Upsert(rows, tbl, user, zone, input) ==
    IF ~OwnsHabit(rows, user, input.habitId)
    THEN [code |-> "UNAUTHORIZED", db |-> tbl]
    ELSE LET normalizedDate == SetHoursZero(zone, input.date)
             found == {e \in tbl : e.habitId = input.habitId /\ e.date = normalizedDate}
             created == [id |-> NewId(tbl), habitId |-> input.habitId,
                         date |-> normalizedDate, count |-> input.count]
         IN  IF found = {}
             THEN [code |-> "OK", db |-> tbl \cup {created}, data |-> created]
             ELSE [code |-> "OK",
                   db |-> {IF e \in found THEN [e EXCEPT !.count = input.count] ELSE e : e \in tbl},
                   data |-> [(CHOOSE e \in found : TRUE) EXCEPT !.count = input.count]]

(***************************************************************************)
(* A stand-alone render of HabitHeatmap: the props are drawn, then the     *)
(* grid is built from them.                                                *)
(***************************************************************************)
Zones == {UTC, NewYork, London, Tokyo}

\* The days "today" is drawn from: mid-week days, a Saturday, a Sunday, the
\* first days of a year and the days around the daylight-saving changes.
Todays ==
    {DayOf(2024, 0, 1), DayOf(2024, 0, 3), DayOf(2024, 0, 6), DayOf(2024, 0, 7),
     DayOf(2024, 2, 31), DayOf(2024, 3, 1), DayOf(2024, 10, 3), DayOf(2024, 10, 4),
     DayOf(2023, 11, 31)}

Years == {2023, 2024}

\* Hours of the day new Date() is drawn from.
ClockHours == {0, 15}

Clocks(zone) == {FromLocal(zone, HoursPerDay * d + hr) : d \in Todays, hr \in ClockHours}

\* Entry lists a render is given: dates are local midnights of days near today.
EntryLists(zone, clock, goal) ==
    LET today == SetHoursZero(zone, clock)
        e(k, c) == [date |-> AddDays(zone, today, 0 - k), count |-> c]
    IN  {<<>>} \cup {<<e(0, c)>> : c \in 1..(goal + 1)}
               \cup {<<e(1, 1), e(0, c)>> : c \in 1..goal}

\* In the year view heatmapData does not read props.days: one value is drawn.
GridInit ==
    /\ tz \in Zones
    /\ stz = UTC
    /\ now \in Clocks(tz)
    /\ habit \in {[id |-> "h1", dailyGoal |-> g] : g \in 1..MaxGoal}
    /\ \/ selectedYear = Null /\ days \in 1..MaxDays
       \/ selectedYear \in Years /\ days = MaxDays
    /\ entries \in IF selectedYear = Null
                   THEN EntryLists(tz, now, habit.dailyGoal)
                   ELSE {es \in EntryLists(tz, now, habit.dailyGoal) : Len(es) <= 1 /\ \A i \in 1..Len(es) : es[i].count = 1}
    /\ heatmapData = <<>>
    /\ pc = "props"
    /\ db = {}
    /\ queryData = [defined |-> FALSE, value |-> <<>>]
    /\ fetch = [status |-> "idle"]
    /\ mutations = <<>>
    /\ clicks = 0
    /\ error = ""
    /\ timers = <<>>
    /\ habits = {}
    /\ calls = {}
    /\ response = [n |-> 0]
    /\ background = Null
    /\ habitsQuery = Null
    /\ entriesQueries = <<>>
    /\ memo = Null
    /\ celebration = Null

Render ==
    /\ pc = "props"
    /\ heatmapData' = HeatmapData(habit, entries, days, selectedYear, tz, now)
    /\ pc' = "rendered"
    /\ UNCHANGED <<routerVars, pageVars, background, now, tz, stz, habit, days, selectedYear, entries,
                   db, queryData, fetch, mutations, clicks, error, timers>>

GridNext == Render

SpecGrid == GridInit /\ [][GridNext]_vars


(***************************************************************************)
(* The dashboard with one habit: HabitsDashboard feeds the query's data to *)
(* HabitHeatmap, whose cells and button call handleDayClick.               *)
(***************************************************************************)
SessionUser == "u1"

\* the habit table: the signed-in user owns the habit on the dashboard
HabitRows == {[id |-> habit.id, userId |-> SessionUser]}

\* "temp-" + Date.now(): told apart from every id the database gives
TempId == 0

\* const entries = entriesQuery?.data ?? []
Entries == IF queryData.defined THEN queryData.value ELSE <<>>

\* the grid on screen
Grid == HeatmapData(habit, Entries, days, selectedYear, tz, now)

\* the cells of the grid
GridCells ==
    LET g == Grid
    IN  {g[w][i] : w \in 1..Len(g), i \in 1..7} \ {NullCell}

\* const newCount = currentCount >= habit.dailyGoal ? 0 : currentCount + 1
NewCount(currentCount, dailyGoal) == IF currentCount >= dailyGoal THEN 0 ELSE currentCount + 1

\* the updater handed to getLastNDays.setData
SetDataUpdater(old, habitId, date, newCount) ==
    IF ~old.defined THEN old
    ELSE LET dateStr == ISODate(date)
             hits == {i \in 1..Len(old.value) : ISODate(old.value[i].date) = dateStr}
             existingIndex == CHOOSE i \in hits : \A j \in hits : i <= j
         IN  IF hits # {}
             THEN [old EXCEPT !.value[existingIndex].count = newCount]
             ELSE [old EXCEPT !.value = Append(@, [id |-> TempId, habitId |-> habitId,
                                                    date |-> date, count |-> newCount])]

\* upsertEntry.mutate(input): the request leaves; click numbers the mutations
Mutate(ms, click, input) == Append(ms, [click |-> click, input |-> input, phase |-> "sent"])

HandleDayClick(date, currentCount) ==
    LET newCount == NewCount(currentCount, habit.dailyGoal)
    IN  /\ clicks < MaxClicks
        /\ clicks' = clicks + 1
        /\ error' = ""
        /\ queryData' = SetDataUpdater(queryData, habit.id, date, newCount)
        /\ mutations' = Mutate(mutations, clicks + 1,
                               [habitId |-> habit.id, date |-> date, count |-> newCount])
        /\ UNCHANGED <<routerVars, pageVars, background, now, tz, stz, habit, days, selectedYear, entries, heatmapData, pc,
                       db, fetch, timers>>

\* onClick of a cell: day.isToday && handleDayClick(day.date, day.count)
OnClick(day) == IF day.isToday THEN HandleDayClick(day.date, day.count) ELSE UNCHANGED vars

\* the user clicks a cell; a null cell has no onClick
ClickDay == \E day \in GridCells : OnClick(day)

\* todayEntry?.count ?? 0 in handleIncrementToday
TodayCount(es, today) ==
    LET hits == {i \in 1..Len(es) : ISODate(es[i].date) = ISODate(today)}
    IN  IF hits = {} THEN 0 ELSE es[CHOOSE i \in hits : \A j \in hits : i <= j].count

HandleIncrementToday ==
    LET today == SetHoursZero(tz, now)
    IN  HandleDayClick(today, TodayCount(Entries, today))

\* the server runs getLastNDays for the request in flight
ServeGetLastNDays ==
    /\ fetch.status = "sent"
    /\ fetch' = [status |-> "served", by |-> fetch.by,
                 result |-> GetLastNDays(HabitRows, db, SessionUser, stz, now,
                                         [habitId |-> habit.id, days |-> days])]
    /\ UNCHANGED <<routerVars, pageVars, background, now, tz, stz, habit, days, selectedYear, entries, heatmapData, pc,
                   db, queryData, mutations, clicks, error, timers>>

\* the response reaches the query cache
QuerySettled ==
    /\ fetch.status = "served"
    /\ queryData' = IF fetch.result.code = "OK"
                    THEN [defined |-> TRUE, value |-> fetch.result.data]
                    ELSE queryData
    /\ fetch' = [status |-> "idle"]
    /\ UNCHANGED <<routerVars, pageVars, background, now, tz, stz, habit, days, selectedYear, entries, heatmapData, pc,
                   db, mutations, clicks, error, timers>>

\* the mutations in flight, by position in the list
InFlight == 1..Len(mutations)

\* the list without its i-th mutation: a settled mutation is forgotten
Settle(ms, i) == SubSeq(ms, 1, i - 1) \o SubSeq(ms, i + 1, Len(ms))

\* the server runs upsert for mutation i
ServeUpsert(i) ==
    /\ mutations[i].phase = "sent"
    /\ LET r == Upsert(HabitRows, db, SessionUser, stz, mutations[i].input)
       IN  /\ db' = r.db
           /\ mutations' = [mutations EXCEPT ![i].phase = IF r.code = "OK" THEN "applied" ELSE "rejected"]
    /\ UNCHANGED <<routerVars, pageVars, background, now, tz, stz, habit, days, selectedYear, entries, heatmapData, pc,
                   queryData, fetch, clicks, error, timers>>

\* a success handler that drops the placeholder entry and adds no server row
OnSuccessDropsPlaceholder(old, data) ==
    IF old.defined
    THEN [old EXCEPT !.value = SelectSeq(old.value, LAMBDA e : e.id # TempId)]
    ELSE old

\* what the success of a mutation does to the query cache: upsertEntry has no
\* onSuccess, the cache is left as it is
OnSuccess(old, data) == old

\* the mutation resolves
MutationSuccess(i) ==
    /\ mutations[i].phase = "applied"
    /\ queryData' = OnSuccess(queryData, mutations[i].input)
    /\ mutations' = Settle(mutations, i)
    /\ UNCHANGED <<routerVars, pageVars, background, now, tz, stz, habit, days, selectedYear, entries, heatmapData, pc,
                   db, fetch, clicks, error, timers>>

\* utils.habitEntry.getLastNDays.invalidate({ habitId }): the query is fetched
\* again, a fetch in flight being dropped for the new one
Invalidate(f, click) == [status |-> "sent", by |-> click]

\* a failure handler that starts no timer
SetTimeoutNever(ts, click) == ts

\* setTimeout(() => setError(null), 3000): the timers fire in the order set
SetTimeout(ts, click) == Append(ts, click)

\* upsertEntry.onError
OnError(click) ==
    /\ error' = "Failed to update"
    /\ fetch' = Invalidate(fetch, click)
    /\ timers' = SetTimeout(timers, click)

\* the mutation rejects: the request or its response is lost, or the server
\* answered with an error
MutationError(i) ==
    /\ mutations[i].phase \in {"sent", "applied", "rejected"}
    /\ mutations' = Settle(mutations, i)
    /\ OnError(mutations[i].click)
    /\ UNCHANGED <<routerVars, pageVars, background, now, tz, stz, habit, days, selectedYear, entries, heatmapData, pc,
                   db, queryData, clicks>>

\* a 3000 ms timer fires: () => setError(null)
ClearError ==
    /\ timers # <<>>
    /\ error' = ""
    /\ timers' = Tail(timers)
    /\ UNCHANGED <<routerVars, pageVars, background, now, tz, stz, habit, days, selectedYear, entries, heatmapData, pc,
                   db, queryData, fetch, mutations, clicks>>

\* The time zones of browser and server, and the clock.
Deployments == {[tz |-> UTC, stz |-> UTC], [tz |-> Tokyo, stz |-> UTC]}

\* What the table holds when the dashboard opens: rows earlier clicks stored.
StoredRow(id, zone, szone, clock, back, c) ==
    [id |-> id, habitId |-> "h1",
     date |-> SetHoursZero(szone, AddDays(zone, SetHoursZero(zone, clock), 0 - back)),
     count |-> c]

InitialTables(zone, szone, clock, goal) ==
    {{}, {StoredRow(1, zone, szone, clock, 0, goal)}, {StoredRow(1, zone, szone, clock, 1, 1)}}

Init ==
    /\ \E d \in Deployments : tz = d.tz /\ stz = d.stz
    /\ now = FromLocal(tz, HoursPerDay * DayOf(2024, 0, 3) + 15)
    /\ habit \in {[id |-> "h1", dailyGoal |-> g] : g \in 1..MaxGoal}
    /\ days = MaxDays
    /\ selectedYear = Null
    /\ entries = <<>>
    /\ heatmapData = <<>>
    /\ pc = "dashboard"
    /\ db \in InitialTables(tz, stz, now, habit.dailyGoal)
    /\ queryData = [defined |-> FALSE, value |-> <<>>]
    /\ fetch = [status |-> "sent", by |-> 0]
    /\ mutations = <<>>
    /\ clicks = 0
    /\ error = ""
    /\ timers = <<>>
    /\ habits = HabitRows
    /\ calls = {}
    /\ response = [n |-> 0]
    /\ background = Null
    /\ habitsQuery = Null
    /\ entriesQueries = <<>>
    /\ memo = Null
    /\ celebration = Null

Next ==
    \/ ClickDay
    \/ HandleIncrementToday
    \/ ServeGetLastNDays
    \/ QuerySettled
    \/ \E i \in InFlight : ServeUpsert(i)
    \/ \E i \in InFlight : MutationSuccess(i)
    \/ \E i \in InFlight : MutationError(i)
    \/ ClearError

Spec == Init /\ [][Next]_vars

\* A set timer fires.  The error state and its timers do not depend on the
\* time zones: they are checked with browser and server in UTC.
LiveInit == Init /\ tz = UTC

LiveSpec == LiveInit /\ [][Next]_vars /\ WF_vars(ClearError)

(***************************************************************************)
(* What the user sees and what the table holds for today's cell.           *)
(***************************************************************************)
Today == SetHoursZero(tz, now)

\* the grid HabitsDashboard renders from the query data qd
GridOf(qd) ==
    HeatmapData(habit, IF qd.defined THEN qd.value ELSE <<>>, days, selectedYear, tz, now)

\* the count in the cell for today of the grid rendered from qd
ShownIn(qd) ==
    LET g == GridOf(qd)
        cells == {g[w][i] : w \in 1..Len(g), i \in 1..7} \ {NullCell}
    IN  (CHOOSE day \in cells : day.date = Today).count

ShownCount == ShownIn(queryData)

\* the count the table tbl holds for (habit, today), 0 when it holds no row
StoredIn(tbl) ==
    LET rows == {e \in tbl : e.habitId = habit.id /\ e.date = SetHoursZero(stz, Today)}
    IN  IF rows = {} THEN 0 ELSE (CHOOSE e \in rows : TRUE).count

StoredCount == StoredIn(db)

\* a step of handleDayClick, and the mutation it sent
IsClick == clicks' = clicks + 1

Sent == mutations'[Len(mutations')]

\* the mutation of the latest click, while it is in flight
LatestInFlight == {i \in InFlight : mutations[i].click = clicks}

(***************************************************************************)
(* C1: every click on a cell showing count c sets the count - the one sent *)
(* and the one the cell shows next - to 0 when c >= dailyGoal and to c + 1 *)
(* otherwise, so that repeated clicks from 0 walk through 0, 1, ...,       *)
(* dailyGoal and back to 0.                                                *)
(***************************************************************************)
C1_ClickCycles ==
    [][IsClick =>
         LET c == ShownCount
             next == IF c >= habit.dailyGoal THEN 0 ELSE c + 1
         IN  Sent.input.count = next /\ ShownIn(queryData') = next]_vars

(***************************************************************************)
(* C2: in the step of the click itself the cached entries of the habit get *)
(* the new count for the clicked date, before the upsert is served.        *)
(***************************************************************************)
C2_OptimisticInSameStep ==
    [][IsClick =>
         /\ queryData'.defined
         /\ \E k \in 1..Len(queryData'.value) :
                /\ ISODate(queryData'.value[k].date) = ISODate(Sent.input.date)
                /\ queryData'.value[k].count = Sent.input.count]_vars

(***************************************************************************)
(* C3: a click made while the previous click's upsert is unresolved sends  *)
(* the count that follows the previous click's count: k rapid clicks from  *)
(* 0 send 1, 2, ..., k.                                                    *)
(***************************************************************************)
C3_ChainsOffOptimistic ==
    [][IsClick =>
         \A i \in LatestInFlight :
             mutations[i].input.date = Sent.input.date
                 => Sent.input.count = NewCount(mutations[i].input.count, habit.dailyGoal)]_vars

(***************************************************************************)
(* C4: when the re-fetch asked for by a failed upsert completes, the count *)
(* shown for the clicked date is the count the table holds for it.         *)
(***************************************************************************)
C4_RefetchShowsStore ==
    [][(QuerySettled /\ fetch.by > 0 /\ queryData.defined) => ShownIn(queryData') = StoredIn(db')]_vars

(***************************************************************************)
(* C5: once no request is in flight, the count shown equals the count      *)
(* stored.                                                                 *)
(***************************************************************************)
C5_QuiescentAgreement ==
    (fetch.status = "idle" /\ mutations = <<>>) => ShownCount = StoredCount

(***************************************************************************)
(* C6: the result of an earlier mutation - its success response or the     *)
(* re-fetch its failure asked for - arriving after a later click does not  *)
(* replace the count the later click set locally.                          *)
(***************************************************************************)
C6_LateResultKeepsNewerCount ==
    [][\A j \in LatestInFlight :
          (/\ ShownCount = mutations[j].input.count
           /\ \/ QuerySettled /\ 0 < fetch.by /\ fetch.by < mutations[j].click
              \/ \E i \in InFlight : mutations[i].click < mutations[j].click /\ MutationSuccess(i))
          => ShownIn(queryData') = mutations[j].input.count]_vars

(***************************************************************************)
(* C7: whenever the error state is non-null it becomes null again without  *)
(* user action, the timer set at the failure clearing it.                  *)
(***************************************************************************)
C7_ErrorClears == (error # "") ~> (error = "")

\* one click, its upsert failed, and the timer of that failure has cleared the
\* message while the re-fetch the failure asked for is still unanswered
C7_Witness ==
    /\ clicks = 1 /\ mutations = <<>>
    /\ fetch.status = "sent" /\ fetch.by = 1
    /\ timers = <<>> /\ error = ""

(***************************************************************************)
(* C8: processing the success response of an upsert whose count is the     *)
(* count shown leaves the count shown unchanged.                           *)
(***************************************************************************)
C8_SuccessKeepsCount ==
    [][\A i \in InFlight :
          (MutationSuccess(i) /\ mutations[i].input.count = ShownCount)
          => ShownIn(queryData') = ShownCount]_vars

\* one click on an empty cell, its placeholder entry still cached after the
\* mutation resolved: no re-fetch replaced it, so the mutation succeeded
C8_Witness ==
    /\ clicks = 1 /\ mutations = <<>> /\ fetch.status = "idle"
    /\ \E k \in 1..Len(Entries) : Entries[k].id = TempId /\ Entries[k].count = ShownCount
    /\ ShownCount = 1 /\ StoredCount = 1

(***************************************************************************)
(* The cells of a rendered grid, left to right and top to bottom.          *)
(***************************************************************************)
RECURSIVE Flatten(_)
Flatten(weeks) ==
    IF weeks = <<>> THEN <<>> ELSE Head(weeks) \o Flatten(Tail(weeks))

RealCells == SelectSeq(Flatten(heatmapData), LAMBDA day : day # NullCell)

\* the local calendar days of the non-null cells are exactly first..last, in order
RealCellsAre(first, last) ==
    LET real == RealCells
    IN  /\ Len(real) = last - first + 1
        /\ \A k \in 1..Len(real) : LocalDay(tz, real[k].date) = first + (k - 1)

(***************************************************************************)
(* C9: in rolling mode with window days = N and today = D the non-null     *)
(* cells of the grid are exactly the N calendar days D-(N-1) .. D, each    *)
(* once and in ascending order, every other position being null.           *)
(***************************************************************************)
C9_RollingWindowCells ==
    (pc = "rendered" /\ selectedYear = Null)
        => RealCellsAre(LocalDay(tz, now) - (days - 1), LocalDay(tz, now))

(***************************************************************************)
(* C10: in year mode for year Y the non-null cells of the grid are exactly *)
(* the days January 1 .. December 31 of Y, each once and in ascending      *)
(* order, every other position being null.                                 *)
(***************************************************************************)
C10_YearWindowCells ==
    (pc = "rendered" /\ selectedYear # Null)
        => RealCellsAre(DayOf(selectedYear, 0, 1), DayOf(selectedYear, 11, 31))

(***************************************************************************)
(* C11: in both modes every week of the grid has exactly 7 cells, the      *)
(* first cell of the first week is a Sunday, and a non-null cell at index  *)
(* i of a week (0-based) has weekday i, so that the last position of the   *)
(* last week is a Saturday.                                                *)
(***************************************************************************)
C11_CompleteWeeks ==
    pc = "rendered" =>
        /\ heatmapData # <<>>
        /\ \A w \in 1..Len(heatmapData) : Len(heatmapData[w]) = 7
        /\ heatmapData[1][1] # NullCell
        /\ GetDay(tz, heatmapData[1][1].date) = 0
        /\ \A w \in 1..Len(heatmapData) : \A i \in 1..Len(heatmapData[w]) :
               heatmapData[w][i] # NullCell => GetDay(tz, heatmapData[w][i].date) = i - 1

(***************************************************************************)
(* C12: in the rolling view with window days = N ending today = D the last *)
(* non-null cell of the grid has date D and the first row begins on the    *)
(* latest Sunday on or before D-(N-1).                                     *)
(***************************************************************************)
C12_RollingEnds ==
    (pc = "rendered" /\ selectedYear = Null) =>
        LET real == RealCells
            D == LocalDay(tz, now)
        IN  /\ real # <<>>
            /\ LocalDay(tz, real[Len(real)].date) = D
            /\ heatmapData[1][1] # NullCell
            /\ LocalDay(tz, heatmapData[1][1].date) = SundayOnOrBefore(D - (days - 1))

(***************************************************************************)
(* C13: every non-null cell's count is the count of the entry whose        *)
(* calendar date is the cell's date, and 0 when no entry has that date;    *)
(* with no entries every non-null cell has count 0 and intensity 0.        *)
(***************************************************************************)
C13_CellCounts ==
    pc = "rendered" =>
        LET real == RealCells
        IN  \A c \in 1..Len(real) :
                LET hits == {k \in 1..Len(entries) :
                                LocalDay(tz, entries[k].date) = LocalDay(tz, real[c].date)}
                IN  /\ hits = {} => real[c].count = 0 /\ real[c].intensity.n = 0
                    /\ hits # {} => \E k \in hits : real[c].count = entries[k].count

(***************************************************************************)
(* C14: a cell's intensity is min(count / dailyGoal, 1): it lies in [0, 1],*)
(* does not decrease when the count grows, is 1 exactly when               *)
(* count >= dailyGoal and 0 exactly when count = 0.                        *)
(***************************************************************************)
C14_IntensityRange ==
    pc = "rendered" =>
        LET real == RealCells
            G == habit.dailyGoal
            shown == {[count |-> real[c].count, x |-> real[c].intensity] : c \in 1..Len(real)}
        IN  /\ \A s \in shown :
                  /\ s.x.d > 0 /\ 0 <= s.x.n /\ s.x.n <= s.x.d
                  /\ (s.x.n = s.x.d) <=> (s.count >= G)
                  /\ (s.x.n = 0) <=> (s.count = 0)
                  /\ s.count < G => s.x.n * G = s.count * s.x.d
            /\ \A s1, s2 \in shown :
                  s1.count <= s2.count => s1.x.n * s2.x.d <= s2.x.n * s1.x.d

\* a grid with a cell whose count is above the goal, drawn at full intensity
C14_Witness ==
    /\ pc = "rendered"
    /\ LET real == RealCells
       IN  /\ \E c \in 1..Len(real) :
                  real[c].count > habit.dailyGoal /\ real[c].intensity = [n |-> 1, d |-> 1]
           /\ \E c \in 1..Len(real) : real[c].count = 0

(***************************************************************************)
(* C15: in the year view a cell is flagged isToday exactly when its date   *)
(* is the current calendar date: at most one cell is flagged, and none     *)
(* when the current date is not a day of the selected year.                *)
(***************************************************************************)
C15_YearIsToday ==
    (pc = "rendered" /\ selectedYear # Null) =>
        LET real == RealCells
            D == LocalDay(tz, now)
            flagged == {c \in 1..Len(real) : real[c].isToday}
        IN  /\ \A c \in 1..Len(real) : real[c].isToday <=> (LocalDay(tz, real[c].date) = D)
            /\ Cardinality(flagged) <= 1
            /\ YearOf(D) # selectedYear => flagged = {}

(***************************************************************************)
(* HabitHeatmap.getBackgroundColor.  A string is a sequence of characters; *)
(* the rgba(...) template string is kept as the record of its four values. *)
(***************************************************************************)
UpperDigits == <<"0", "1", "2", "3", "4", "5", "6", "7", "8", "9", "A", "B", "C", "D", "E", "F">>

LowerDigits == <<"0", "1", "2", "3", "4", "5", "6", "7", "8", "9", "a", "b", "c", "d", "e", "f">>

IsHexDigit(ch) == \E v \in 1..16 : UpperDigits[v] = ch \/ LowerDigits[v] = ch

HexValue(ch) == (CHOOSE v \in 1..16 : UpperDigits[v] = ch \/ LowerDigits[v] = ch) - 1

\* NaN, told apart from every value parseInt gives for digits
NaN == 0 - 1

\* parseInt(str, 16): the digits up to the first character that is none; NaN
\* when there is no digit
RECURSIVE ParseDigits(_, _)
ParseDigits(str, acc) ==
    IF str = <<>> \/ ~IsHexDigit(Head(str)) THEN acc
    ELSE ParseDigits(Tail(str), 16 * acc + HexValue(Head(str)))

ParseInt16(str) ==
    IF str = <<>> \/ ~IsHexDigit(Head(str)) THEN NaN ELSE ParseDigits(str, 0)

\* str.replace("#", ""): the first "#" is removed
RECURSIVE RemoveFirstHash(_)
RemoveFirstHash(str) ==
    IF str = <<>> THEN <<>>
    ELSE IF Head(str) = "#" THEN Tail(str)
    ELSE <<Head(str)>> \o RemoveFirstHash(Tail(str))

\* str.substring(from, to) for 0 <= from <= to
Substring(str, from, to) ==
    SubSeq(str, from + 1, IF to <= Len(str) THEN to ELSE Len(str))

NeutralTone == "hsl(var(--foreground) / 0.1)"

\* a conversion that reads the pairs without removing the "#"
GetBackgroundColorKeepsHash(intensity, color) ==
    IF intensity.n = 0 THEN NeutralTone
    ELSE [r |-> ParseInt16(Substring(color, 0, 2)),
          g |-> ParseInt16(Substring(color, 2, 4)),
          b |-> ParseInt16(Substring(color, 4, 6)),
          a |-> intensity]

GetBackgroundColor(intensity, color) ==
    IF intensity.n = 0 THEN NeutralTone
    ELSE LET hex == RemoveFirstHash(color)
         IN  [r |-> ParseInt16(Substring(hex, 0, 2)),
              g |-> ParseInt16(Substring(hex, 2, 4)),
              b |-> ParseInt16(Substring(hex, 4, 6)),
              a |-> intensity]

\* Colours a habit can have: /^#[0-9A-Fa-f]{6}$/, written from channel values.
ChannelValues == {0, 9, 10, 59, 179, 186, 255}

HexPair(v, digits) == <<digits[(v \div 16) + 1], digits[(v % 16) + 1]>>

HexColor(r, g, b, digits) == <<"#">> \o HexPair(r, digits) \o HexPair(g, digits) \o HexPair(b, digits)

Colors ==
    {HexColor(r, g, b, digits) : r \in ChannelValues, g \in ChannelValues, b \in ChannelValues,
                                 digits \in {UpperDigits, LowerDigits}}

ColorInit ==
    /\ tz = UTC
    /\ stz = UTC
    /\ now = HoursPerDay * DayOf(2024, 0, 3)
    /\ habit \in {[id |-> "h1", dailyGoal |-> g, color |-> c] : g \in 1..MaxGoal, c \in Colors}
    /\ days = MaxDays
    /\ selectedYear = Null
    /\ entries = <<>>
    /\ heatmapData = <<>>
    /\ pc = "props"
    /\ db = {}
    /\ queryData = [defined |-> FALSE, value |-> <<>>]
    /\ fetch = [status |-> "idle"]
    /\ mutations = <<>>
    /\ clicks = 0
    /\ error = ""
    /\ timers = <<>>
    /\ habits = {}
    /\ calls = {}
    /\ response = [n |-> 0]
    /\ background = Null
    /\ habitsQuery = Null
    /\ entriesQueries = <<>>
    /\ memo = Null
    /\ celebration = Null

\* a cell with some count is painted: style={{ backgroundColor: getBackgroundColor(day.intensity) }}
PaintCell ==
    /\ pc = "props"
    /\ \E count \in 0..(habit.dailyGoal + 1) :
           LET intensity == Intensity(count, habit.dailyGoal)
           IN  background' = [intensity |-> intensity,
                              css |-> GetBackgroundColor(intensity, habit.color)]
    /\ pc' = "painted"
    /\ UNCHANGED <<routerVars, pageVars, now, tz, stz, habit, days, selectedYear, entries, heatmapData,
                   db, queryData, fetch, mutations, clicks, error, timers>>

ColorNext == PaintCell

SpecColor == ColorInit /\ [][ColorNext]_vars

(***************************************************************************)
(* C16: getBackgroundColor gives the same neutral tone for intensity 0     *)
(* whatever the habit's colour, and for an intensity in (0, 1] and a       *)
(* colour #RRGGBB it gives rgba(r, g, b, intensity) with r, g, b the       *)
(* values of the pairs RR, GG, BB.                                         *)
(***************************************************************************)
C16_BackgroundColor ==
    pc = "painted" =>
        IF background.intensity.n = 0
        THEN background.css = "hsl(var(--foreground) / 0.1)"
        ELSE LET PairValues(k) ==
                     {v \in 0..255 : \E digits \in {UpperDigits, LowerDigits} :
                                         SubSeq(habit.color, 2 * k, 2 * k + 1) = HexPair(v, digits)}
             IN  /\ Len(habit.color) = 7 /\ habit.color[1] = "#"
                 /\ DOMAIN background.css = {"r", "g", "b", "a"}
                 /\ background.css.r \in PairValues(1)
                 /\ background.css.g \in PairValues(2)
                 /\ background.css.b \in PairValues(3)
                 /\ background.css.a = background.intensity
                 /\ background.intensity.n > 0 /\ background.intensity.n <= background.intensity.d

\* #FFB3BA painted at 0.5: rgba(255, 179, 186, 0.5)
C16_Witness ==
    /\ pc = "painted"
    /\ habit.color = <<"#", "F", "F", "B", "3", "B", "A">>
    /\ background.intensity = [n |-> 1, d |-> 2]
    /\ background.css = [r |-> 255, g |-> 179, b |-> 186, a |-> [n |-> 1, d |-> 2]]

(***************************************************************************)
(* The routers as a server: habitEntryRouter and habitRouter called by the *)
(* signed-in user against tables that also hold another user's habit.      *)
(* Every procedure but increment is one step; increment is two, its        *)
(* findUnique and its update or create, and other calls run in between.    *)
(***************************************************************************)
MaxCalls == 3

\* habitEntry has a compound unique key habitId_date: a second row for the
\* pair is refused by the database
HabitIdDateTaken(tbl, habitId, date) == \E e \in tbl : e.habitId = habitId /\ e.date = date

\* findMany({ where: { habitId, date: { gte, lte } }, orderBy: { date: "asc" } })
GetByHabitAndDateRange(rows, tbl, user, input) ==
    IF ~OwnsHabit(rows, user, input.habitId)
    THEN [code |-> "UNAUTHORIZED"]
    ELSE [code |-> "OK",
          data |-> OrderByDate({e \in tbl : /\ e.habitId = input.habitId
                                            /\ e.date >= input.startDate
                                            /\ e.date <= input.endDate})]

\* findUnique({ where: { habitId_date } }): the row or null
GetByHabitAndDate(rows, tbl, user, zone, input) ==
    IF ~OwnsHabit(rows, user, input.habitId)
    THEN [code |-> "UNAUTHORIZED"]
    ELSE LET normalizedDate == SetHoursZero(zone, input.date)
             found == {e \in tbl : e.habitId = input.habitId /\ e.date = normalizedDate}
         IN  [code |-> "OK", data |-> found]

\* increment up to its findUnique: the call as it waits for its write
IncrementFind(rows, tbl, user, zone, clock, input) ==
    IF ~OwnsHabit(rows, user, input.habitId)
    THEN [code |-> "UNAUTHORIZED"]
    ELSE LET date == IF input.date = Null THEN clock ELSE input.date
             normalizedDate == SetHoursZero(zone, date)
         IN  [code |-> "OK",
              normalizedDate |-> normalizedDate,
              existing |-> {e \in tbl : e.habitId = input.habitId /\ e.date = normalizedDate}]

\* increment from the findUnique's result on: update({ where: { id: existing.id },
\* data: { count: existing.count + amount } }) or create(...)
IncrementWrite(tbl, input, found) ==
    IF found.existing # {}
    THEN LET existing == CHOOSE e \in found.existing : TRUE
             row == {e \in tbl : e.id = existing.id}
             updated(e) == [e EXCEPT !.count = existing.count + input.amount]
         IN  IF row = {}
             THEN [code |-> "INTERNAL_SERVER_ERROR", db |-> tbl]
             ELSE [code |-> "OK",
                   db |-> {IF e \in row THEN updated(e) ELSE e : e \in tbl},
                   data |-> {updated(e) : e \in row}]
    ELSE LET created == [id |-> NewId(tbl), habitId |-> input.habitId,
                         date |-> found.normalizedDate, count |-> input.amount]
         IN  IF HabitIdDateTaken(tbl, input.habitId, found.normalizedDate)
             THEN [code |-> "INTERNAL_SERVER_ERROR", db |-> tbl]
             ELSE [code |-> "OK", db |-> tbl \cup {created}, data |-> {created}]

\* habitEntry.delete: the entry is looked up with its habit
DeleteEntry(rows, tbl, user, input) ==
    LET entry == {e \in tbl : e.id = input.id}
    IN  IF entry = {} \/ \A e \in entry : ~OwnsHabit(rows, user, e.habitId)
        THEN [code |-> "UNAUTHORIZED", db |-> tbl]
        ELSE [code |-> "OK", db |-> tbl \ entry, data |-> entry]

\* habit.getById: the habit with its entries, or null
HabitGetById(rows, tbl, user, input) ==
    LET habitRow == {h \in rows : h.id = input.id}
    IN  IF habitRow # {} /\ \A h \in habitRow : h.userId # user
        THEN [code |-> "UNAUTHORIZED"]
        ELSE [code |-> "OK",
              data |-> [habit |-> habitRow, entries |-> {e \in tbl : e.habitId = input.id}]]

\* habit?.userId !== ctx.session.user.id in update, archive and delete
HabitOwnedBy(rows, user, id) == \E h \in rows : h.id = id /\ h.userId = user

\* const { id, ...data } = input; update({ where: { id }, data }): the fields
\* the input carries replace the row's
HabitUpdate(rows, user, input) ==
    IF ~HabitOwnedBy(rows, user, input.id)
    THEN [code |-> "UNAUTHORIZED", habits |-> rows]
    ELSE LET updated(h) == [f \in DOMAIN h \cup DOMAIN input |->
                               IF f \in DOMAIN input THEN input[f] ELSE h[f]]
         IN  [code |-> "OK",
              habits |-> {IF h.id = input.id THEN updated(h) ELSE h : h \in rows},
              data |-> {updated(h) : h \in {r \in rows : r.id = input.id}}]

HabitArchive(rows, user, input) ==
    IF ~HabitOwnedBy(rows, user, input.id)
    THEN [code |-> "UNAUTHORIZED", habits |-> rows]
    ELSE LET updated(h) == [h EXCEPT !.isActive = FALSE]
         IN  [code |-> "OK",
              habits |-> {IF h.id = input.id THEN updated(h) ELSE h : h \in rows},
              data |-> {updated(h) : h \in {r \in rows : r.id = input.id}}]

\* "Permanently delete a habit and all its entries"
HabitDelete(rows, tbl, user, input) ==
    IF ~HabitOwnedBy(rows, user, input.id)
    THEN [code |-> "UNAUTHORIZED", habits |-> rows, db |-> tbl]
    ELSE [code |-> "OK",
          habits |-> {h \in rows : h.id # input.id},
          db |-> {e \in tbl : e.habitId # input.id},
          data |-> {h \in rows : h.id = input.id}]

\* The signed-in user's habit h1, another user's habit h2, and no habit h3.
OtherUser == "u2"

HabitIds == {"h1", "h2", "h3"}

HabitTable ==
    {[id |-> "h1", userId |-> SessionUser, isActive |-> TRUE, dailyGoal |-> 1],
     [id |-> "h2", userId |-> OtherUser, isActive |-> TRUE, dailyGoal |-> 1]}

\* the dates calls are made with: now and the same time yesterday
CallDates == {now, AddDays(stz, now, 0 - 1)}

\* increment's date is optional: left out, or the same time yesterday
IncrementDates == {Null, AddDays(stz, now, 0 - 1)}

UpsertCounts == {0, 2}

UpdateGoals == {2}

Amounts == {1, 2}

\* tables the server starts from: the other user's entry, with or without an
\* entry of the signed-in user for today
EntryTables(zone, clock) ==
    LET foreign == [id |-> 1, habitId |-> "h2", date |-> SetHoursZero(zone, clock), count |-> 1]
        own == [id |-> 2, habitId |-> "h1", date |-> SetHoursZero(zone, clock), count |-> 1]
    IN  {{foreign}, {foreign, own}}

ServerInit ==
    /\ tz = UTC
    /\ stz = NewYork
    /\ now = FromLocal(stz, HoursPerDay * DayOf(2024, 0, 3) + 15)
    /\ habit = [id |-> "h1", dailyGoal |-> 1]
    /\ days = MaxDays
    /\ selectedYear = Null
    /\ entries = <<>>
    /\ heatmapData = <<>>
    /\ pc = "server"
    /\ db \in EntryTables(stz, now)
    /\ queryData = [defined |-> FALSE, value |-> <<>>]
    /\ fetch = [status |-> "idle"]
    /\ mutations = <<>>
    /\ clicks = 0
    /\ error = ""
    /\ timers = <<>>
    /\ habits = HabitTable
    /\ calls = {}
    /\ response = [n |-> 0]
    /\ background = Null
    /\ habitsQuery = Null
    /\ entriesQueries = <<>>
    /\ memo = Null
    /\ celebration = Null

\* calls started so far, and whether one more may start
Started == response.n + Cardinality(calls)

MayCall == pc = "server" /\ Started < MaxCalls

\* the answer of a call reaches the caller
Respond(op, input, result) ==
    response' = [n |-> response.n + 1, op |-> op, input |-> input, result |-> result]

clientVars == <<now, tz, stz, habit, days, selectedYear, entries, heatmapData, pc,
                queryData, fetch, mutations, clicks, error, timers, background,
                habitsQuery, entriesQueries, memo, celebration>>

CallGetByHabitAndDateRange ==
    /\ MayCall
    /\ \E habitId \in HabitIds, startDate \in CallDates :
           LET input == [habitId |-> habitId, startDate |-> startDate, endDate |-> now]
           IN  Respond("getByHabitAndDateRange", input,
                       GetByHabitAndDateRange(habits, db, SessionUser, input))
    /\ UNCHANGED <<clientVars, db, habits, calls>>

CallGetLastNDays ==
    /\ MayCall
    /\ \E habitId \in HabitIds :
           LET input == [habitId |-> habitId, days |-> days]
           IN  Respond("getLastNDays", input,
                       GetLastNDays(habits, db, SessionUser, stz, now, input))
    /\ UNCHANGED <<clientVars, db, habits, calls>>

CallGetByHabitAndDate ==
    /\ MayCall
    /\ \E habitId \in HabitIds, date \in CallDates :
           LET input == [habitId |-> habitId, date |-> date]
           IN  Respond("getByHabitAndDate", input,
                       GetByHabitAndDate(habits, db, SessionUser, stz, input))
    /\ UNCHANGED <<clientVars, db, habits, calls>>

CallUpsert ==
    /\ MayCall
    /\ \E habitId \in HabitIds, date \in CallDates, count \in UpsertCounts :
           LET input == [habitId |-> habitId, date |-> date, count |-> count]
               r == Upsert(habits, db, SessionUser, stz, input)
           IN  /\ db' = r.db
               /\ Respond("upsert", input,
                          IF r.code = "OK" THEN [code |-> "OK", data |-> {r.data}]
                          ELSE [code |-> r.code])
    /\ UNCHANGED <<clientVars, habits, calls>>

\* increment runs up to its findUnique; refused, it answers at once
CallIncrement ==
    /\ MayCall
    /\ \E habitId \in HabitIds, date \in IncrementDates, amount \in Amounts :
           LET input == [habitId |-> habitId, date |-> date, amount |-> amount]
               found == IncrementFind(habits, db, SessionUser, stz, now, input)
           IN  IF found.code = "OK"
               THEN /\ calls' = calls \cup {[k |-> Started + 1, input |-> input, found |-> found]}
                    /\ UNCHANGED response
               ELSE /\ Respond("increment", input, [code |-> found.code])
                    /\ UNCHANGED calls
    /\ UNCHANGED <<clientVars, db, habits>>

\* a waiting increment writes and answers
IncrementReturns ==
    /\ pc = "server"
    /\ \E call \in calls :
           LET r == IncrementWrite(db, call.input, call.found)
           IN  /\ db' = r.db
               /\ calls' = calls \ {call}
               /\ Respond("increment", call.input,
                          IF r.code = "OK" THEN [code |-> "OK", data |-> r.data]
                          ELSE [code |-> r.code])
    /\ UNCHANGED <<clientVars, habits>>

CallDeleteEntry ==
    /\ MayCall
    /\ \E e \in db :
           LET input == [id |-> e.id]
               r == DeleteEntry(habits, db, SessionUser, input)
           IN  /\ db' = r.db
               /\ Respond("delete", [id |-> e.id, habitId |-> e.habitId],
                          IF r.code = "OK" THEN [code |-> "OK", data |-> r.data]
                          ELSE [code |-> r.code])
    /\ UNCHANGED <<clientVars, habits, calls>>

CallHabitGetById ==
    /\ MayCall
    /\ \E id \in HabitIds :
           Respond("habit.getById", [id |-> id, habitId |-> id],
                   HabitGetById(habits, db, SessionUser, [id |-> id]))
    /\ UNCHANGED <<clientVars, db, habits, calls>>

CallHabitUpdate ==
    /\ MayCall
    /\ \E id \in HabitIds, goal \in UpdateGoals :
           LET r == HabitUpdate(habits, SessionUser, [id |-> id, dailyGoal |-> goal])
           IN  /\ habits' = r.habits
               /\ Respond("habit.update", [id |-> id, habitId |-> id, dailyGoal |-> goal],
                          IF r.code = "OK" THEN [code |-> "OK", data |-> r.data]
                          ELSE [code |-> r.code])
    /\ UNCHANGED <<clientVars, db, calls>>

CallHabitArchive ==
    /\ MayCall
    /\ \E id \in HabitIds :
           LET r == HabitArchive(habits, SessionUser, [id |-> id])
           IN  /\ habits' = r.habits
               /\ Respond("habit.archive", [id |-> id, habitId |-> id],
                          IF r.code = "OK" THEN [code |-> "OK", data |-> r.data]
                          ELSE [code |-> r.code])
    /\ UNCHANGED <<clientVars, db, calls>>

CallHabitDelete ==
    /\ MayCall
    /\ \E id \in HabitIds :
           LET r == HabitDelete(habits, db, SessionUser, [id |-> id])
           IN  /\ habits' = r.habits
               /\ db' = r.db
               /\ Respond("habit.delete", [id |-> id, habitId |-> id],
                          IF r.code = "OK" THEN [code |-> "OK", data |-> r.data]
                          ELSE [code |-> r.code])
    /\ UNCHANGED <<clientVars, calls>>

ServerNext ==
    \/ CallGetByHabitAndDateRange
    \/ CallGetLastNDays
    \/ CallGetByHabitAndDate
    \/ CallUpsert
    \/ CallIncrement
    \/ IncrementReturns
    \/ CallDeleteEntry
    \/ CallHabitGetById
    \/ CallHabitUpdate
    \/ CallHabitArchive
    \/ CallHabitDelete

SpecServer == ServerInit /\ [][ServerNext]_vars

\* the call answered in this step, and whether the habit it names is another user's
Answered == response'.n = response.n + 1

Foreign(habitId) == \E h \in habits : h.id = habitId /\ h.userId # SessionUser

(***************************************************************************)
(* C17: every habit-entry and habit procedure that names a habit or an     *)
(* entry, called for a habit of another user, fails with UNAUTHORIZED,     *)
(* returns no habit or entry data and leaves both tables unchanged.        *)
(***************************************************************************)
C17_ForeignHabitRefused ==
    [][(Answered /\ Foreign(response'.input.habitId)) =>
          /\ response'.result.code = "UNAUTHORIZED"
          /\ "data" \notin DOMAIN response'.result
          /\ db' = db
          /\ habits' = habits]_vars

\* the other user's habit and entry still stored after delete calls on them
\* were refused
C17_Witness ==
    /\ pc = "server"
    /\ response.n = MaxCalls
    /\ response.op \in {"habit.delete", "delete"}
    /\ response.input.habitId = "h2"
    /\ response.result.code = "UNAUTHORIZED"
    /\ \E h \in habits : h.id = "h2"
    /\ \E e \in db : e.habitId = "h2"

\* what the signed-in user is answered by each procedure that takes a habit
\* id, when calling it with id in the present tables
Missing(id) == \A h \in habits : h.id # id

Outcomes(id) ==
    [getByHabitAndDateRange |->
         [d \in CallDates |-> GetByHabitAndDateRange(habits, db, SessionUser,
                                  [habitId |-> id, startDate |-> d, endDate |-> now])],
     getLastNDays |->
         GetLastNDays(habits, db, SessionUser, stz, now, [habitId |-> id, days |-> days]),
     getByHabitAndDate |->
         [d \in CallDates |-> GetByHabitAndDate(habits, db, SessionUser, stz,
                                  [habitId |-> id, date |-> d])],
     upsert |->
         [d \in CallDates |-> Upsert(habits, db, SessionUser, stz,
                                  [habitId |-> id, date |-> d, count |-> 2])],
     increment |->
         [d \in CallDates |-> IncrementFind(habits, db, SessionUser, stz, now,
                                  [habitId |-> id, date |-> d, amount |-> 1])],
     getById |-> HabitGetById(habits, db, SessionUser, [id |-> id]),
     update |-> HabitUpdate(habits, SessionUser, [id |-> id, dailyGoal |-> 2]),
     archive |-> HabitArchive(habits, SessionUser, [id |-> id]),
     delete |-> HabitDelete(habits, db, SessionUser, [id |-> id])]

(***************************************************************************)
(* C18: for every procedure that takes a habit id, the signed-in user gets *)
(* the same outcome for a habit of another user as for an id no habit has, *)
(* so the answer does not tell whether the habit exists.                   *)
(***************************************************************************)
C18_NoExistenceLeak ==
    pc = "server" =>
        \A f, m \in HabitIds : (Foreign(f) /\ Missing(m)) => Outcomes(f) = Outcomes(m)

\* the entries a table holds for a habit on the calendar date of an instant
EntriesOn(tbl, habitId, date) ==
    {e \in tbl : e.habitId = habitId /\ LocalDay(stz, e.date) = LocalDay(stz, date)}

OneEntryPerHabitAndDate ==
    \A e1, e2 \in db :
        (e1.habitId = e2.habitId /\ LocalDay(stz, e1.date) = LocalDay(stz, e2.date)) => e1 = e2

\* a step in which upsert(h, d, c) by the owner is answered
UpsertCreatesOrOverwrites ==
    (Answered /\ response'.op = "upsert" /\ response'.result.code = "OK") =>
        LET input == response'.input
            before == EntriesOn(db, input.habitId, input.date)
            after == EntriesOn(db', input.habitId, input.date)
        IN  /\ Cardinality(after) = 1
            /\ \A e \in after : e.count = input.count
            /\ db' \ after = db \ before
            /\ before # {} => \A e \in after : \E o \in before : e = [o EXCEPT !.count = input.count]

(***************************************************************************)
(* C19: after any sequence of upsert, increment and delete calls the table *)
(* holds at most one entry per (habit, calendar date); upsert(h, d, c) by  *)
(* the owner creates the entry with count c when (h, d) has none and       *)
(* otherwise only overwrites that entry's count, changing no other entry.  *)
(***************************************************************************)
C19_OneEntryPerDate == []OneEntryPerHabitAndDate /\ [][UpsertCreatesOrOverwrites]_vars

\* the owner's table holds two dates, the last call an upsert that overwrote
\* the count of today's entry
C19_Witness ==
    /\ pc = "server"
    /\ response.n > 0 /\ response.op = "upsert" /\ response.result.code = "OK"
    /\ \E e \in response.result.data : e.id = 2 /\ e.count = 2
    /\ Cardinality({e \in db : e.habitId = "h1"}) = 2

\* the count a table holds for a habit on the calendar date of an instant, 0
\* when it holds no entry
CountOn(tbl, habitId, date) ==
    LET rows == EntriesOn(tbl, habitId, date)
    IN  IF rows = {} THEN 0 ELSE (CHOOSE e \in rows : TRUE).count

(***************************************************************************)
(* C20: every increment(h, d, amount) that returns successfully adds       *)
(* exactly amount to the stored count of (h, d), creating the entry with   *)
(* count = amount when it is absent, also when two increments of the same  *)
(* (h, d) interleave between their find and their write.                   *)
(***************************************************************************)
C20_IncrementAdds ==
    [][(Answered /\ response'.op = "increment" /\ response'.result.code = "OK") =>
          LET input == response'.input
              date == IF input.date = Null THEN now ELSE input.date
          IN  CountOn(db', input.habitId, date) = CountOn(db, input.habitId, date) + input.amount]_vars

\* Hours of the day a date argument or the clock may carry.
TimesOfDay == {0, 15, 23}

\* the instant of the server's calendar day of t at which its wall clock shows hr
AtHour(t, hr) == FromLocal(stz, HoursPerDay * LocalDay(stz, t) + hr)

\* increment run without another call in between: findUnique, then the write
Increment(rows, tbl, user, zone, clock, input) ==
    LET found == IncrementFind(rows, tbl, user, zone, clock, input)
    IN  IF found.code = "OK" THEN IncrementWrite(tbl, input, found)
        ELSE [code |-> found.code, db |-> tbl]

(***************************************************************************)
(* C21: for every entry procedure that takes a date - upsert, increment,   *)
(* getByHabitAndDate, getByHabitAndDateRange - and for getLastNDays, which *)
(* takes the current time, two calls that differ only in the time of day   *)
(* of their dates within the same calendar days give the same result and   *)
(* the same table.                                                         *)
(***************************************************************************)
C21_TimeOfDayInsignificant ==
    pc = "server" =>
        \A id \in HabitIds, d \in CallDates, h1 \in TimesOfDay, h2 \in TimesOfDay :
            LET d1 == AtHour(d, h1)
                d2 == AtHour(d, h2)
                n1 == AtHour(now, h1)
                n2 == AtHour(now, h2)
            IN  /\ Upsert(habits, db, SessionUser, stz, [habitId |-> id, date |-> d1, count |-> 2])
                     = Upsert(habits, db, SessionUser, stz, [habitId |-> id, date |-> d2, count |-> 2])
                /\ Increment(habits, db, SessionUser, stz, now, [habitId |-> id, date |-> d1, amount |-> 1])
                     = Increment(habits, db, SessionUser, stz, now, [habitId |-> id, date |-> d2, amount |-> 1])
                /\ Increment(habits, db, SessionUser, stz, n1, [habitId |-> id, date |-> Null, amount |-> 1])
                     = Increment(habits, db, SessionUser, stz, n2, [habitId |-> id, date |-> Null, amount |-> 1])
                /\ GetByHabitAndDate(habits, db, SessionUser, stz, [habitId |-> id, date |-> d1])
                     = GetByHabitAndDate(habits, db, SessionUser, stz, [habitId |-> id, date |-> d2])
                /\ GetByHabitAndDateRange(habits, db, SessionUser,
                                          [habitId |-> id, startDate |-> d1, endDate |-> n1])
                     = GetByHabitAndDateRange(habits, db, SessionUser,
                                              [habitId |-> id, startDate |-> d2, endDate |-> n2])
                /\ \A n \in 1..MaxDays :
                       GetLastNDays(habits, db, SessionUser, stz, n1, [habitId |-> id, days |-> n])
                         = GetLastNDays(habits, db, SessionUser, stz, n2, [habitId |-> id, days |-> n])

(***************************************************************************)
(* The input schemas.  A procedure's .input(z.object(...)) is parsed       *)
(* before its resolver runs; an input the schema refuses is answered       *)
(* BAD_REQUEST and the resolver does not run.  A string is a sequence of   *)
(* characters; numbers are integers.                                       *)
(***************************************************************************)
Has(input, field) == field \in DOMAIN input

\* z.string().min(lo).max(hi)
StringWithin(str, lo, hi) == lo <= Len(str) /\ Len(str) <= hi

\* z.string().regex(/^#[0-9A-Fa-f]{6}$/)
MatchesColor(str) ==
    /\ Len(str) = 7
    /\ str[1] = "#"
    /\ \A i \in 2..7 : IsHexDigit(str[i])

\* a schema for create that takes any input
CreateInputAny(input) == TRUE

\* the schema of habit.create
CreateInputValid(input) ==
    /\ StringWithin(input.name, 1, 100)
    /\ Has(input, "description") => StringWithin(input.description, 0, 500)
    /\ Has(input, "dailyGoal") => input.dailyGoal > 0
    /\ Has(input, "color") => MatchesColor(input.color)

\* the schema of habit.update
UpdateInputValid(input) ==
    /\ Has(input, "name") => StringWithin(input.name, 1, 100)
    /\ Has(input, "description") => StringWithin(input.description, 0, 500)
    /\ Has(input, "dailyGoal") => input.dailyGoal > 0
    /\ Has(input, "color") => MatchesColor(input.color)

\* the schema of habitEntry.upsert: count: z.number().int().nonnegative()
UpsertInputValid(input) == input.count >= 0

\* the schema of habitEntry.increment: amount: z.number().int().positive().default(1)
IncrementInputValid(input) == Has(input, "amount") => input.amount > 0

\* .default(...) of the schemas: the value of a field the input leaves out
DefaultColor == <<"#", "3", "b", "8", "2", "f", "6">>

DefaultGoal == 1

DefaultAmount == 1

\* ids the database gives created habits
FreshHabitIds == {"n1", "n2", "n3", "n4", "n5"}

NewHabitId(rows) == CHOOSE id \in FreshHabitIds : \A h \in rows : h.id # id

\* the parsed input: the fields given, and the defaults for those left out
Parsed(input, defaults) ==
    [f \in DOMAIN input \cup DOMAIN defaults |->
        IF f \in DOMAIN input THEN input[f] ELSE defaults[f]]

\* habit.create: the columns the procedure writes
HabitCreate(rows, user, input) ==
    LET created == [id |-> NewHabitId(rows),
                    userId |-> user,
                    name |-> input.name,
                    description |-> IF Has(input, "description") THEN input.description ELSE <<>>,
                    dailyGoal |-> input.dailyGoal,
                    color |-> input.color]
    IN  [code |-> "OK", habits |-> rows \cup {created}, data |-> {created}]

(***************************************************************************)
(* The procedures that write names, goals, colours and counts, called by   *)
(* the signed-in user with inputs the schemas take and inputs they refuse. *)
(***************************************************************************)
\* names tried: empty, one character, 100 and 101 characters
NamesTried == {<<>>, <<"R">>, [i \in 1..100 |-> "x"], [i \in 1..101 |-> "x"]}

GoalsTried == {0 - 1, 0, MaxGoal}

\* colours tried: a colour with digits of both cases, no "#", five digits, a
\* letter that is no hex digit, eight digits
ColorsTried ==
    {<<"#", "F", "f", "B", "3", "b", "A">>,
     <<"F", "F", "B", "3", "B", "A">>,
     <<"#", "F", "F", "B", "3", "B">>,
     <<"#", "F", "F", "B", "3", "B", "G">>,
     <<"#", "F", "F", "B", "3", "B", "A", "0">>}

CountsTried == {0 - 1, 0, 2}

AmountsTried == {0 - 1, 0, 1}

\* the inputs of create tried: the name alone, and a full input with each
\* field in turn taking the values tried
CreateInputs ==
    LET full == [name |-> <<"W", "a", "l", "k">>, dailyGoal |-> 1,
                 color |-> <<"#", "F", "F", "B", "3", "B", "A">>]
    IN  {[name |-> <<"R">>]}
            \cup {[full EXCEPT !.name = name] : name \in NamesTried}
            \cup {[full EXCEPT !.dailyGoal = goal] : goal \in GoalsTried}
            \cup {[full EXCEPT !.color = color] : color \in ColorsTried}

\* the inputs of update tried: the id alone, and the id with one field
UpdateInputs ==
    {[id |-> "h1"]}
        \cup {[id |-> "h1", name |-> name] : name \in NamesTried}
        \cup {[id |-> "h1", dailyGoal |-> goal] : goal \in GoalsTried}
        \cup {[id |-> "h1", color |-> color] : color \in ColorsTried}

\* the inputs of increment tried: for today, with and without an amount
IncrementInputs ==
    {[habitId |-> "h1", date |-> Null]}
        \cup {[habitId |-> "h1", date |-> Null, amount |-> amount] : amount \in AmountsTried}

\* the table before the calls: a habit of the signed-in user
ValidHabits ==
    {[id |-> "h1", userId |-> SessionUser, name |-> <<"R", "u", "n">>, description |-> <<>>,
      dailyGoal |-> 1, color |-> DefaultColor]}

BoundaryInit ==
    /\ tz = UTC
    /\ stz = NewYork
    /\ now = FromLocal(stz, HoursPerDay * DayOf(2024, 0, 3) + 15)
    /\ habit = [id |-> "h1", dailyGoal |-> 1]
    /\ days = MaxDays
    /\ selectedYear = Null
    /\ entries = <<>>
    /\ heatmapData = <<>>
    /\ pc = "server"
    /\ db \in {{}, {[id |-> 1, habitId |-> "h1", date |-> SetHoursZero(stz, now), count |-> 1]}}
    /\ queryData = [defined |-> FALSE, value |-> <<>>]
    /\ fetch = [status |-> "idle"]
    /\ mutations = <<>>
    /\ clicks = 0
    /\ error = ""
    /\ timers = <<>>
    /\ habits = ValidHabits
    /\ calls = {}
    /\ response = [n |-> 0]
    /\ background = Null
    /\ habitsQuery = Null
    /\ entriesQueries = <<>>
    /\ memo = Null
    /\ celebration = Null

SubmitHabitCreate ==
    /\ MayCall
    /\ \E input \in CreateInputs :
               IF ~CreateInputValid(input)
               THEN /\ Respond("habit.create", input, [code |-> "BAD_REQUEST"])
                    /\ UNCHANGED habits
               ELSE LET r == HabitCreate(habits, SessionUser,
                                         Parsed(input, [dailyGoal |-> DefaultGoal, color |-> DefaultColor]))
                    IN  /\ habits' = r.habits
                        /\ Respond("habit.create", input, [code |-> r.code, data |-> r.data])
    /\ UNCHANGED <<clientVars, db, calls>>

SubmitHabitUpdate ==
    /\ MayCall
    /\ \E input \in UpdateInputs :
               IF ~UpdateInputValid(input)
               THEN /\ Respond("habit.update", input, [code |-> "BAD_REQUEST"])
                    /\ UNCHANGED habits
               ELSE LET r == HabitUpdate(habits, SessionUser, input)
                    IN  /\ habits' = r.habits
                        /\ Respond("habit.update", input, [code |-> r.code, data |-> r.data])
    /\ UNCHANGED <<clientVars, db, calls>>

SubmitUpsert ==
    /\ MayCall
    /\ \E count \in CountsTried :
           LET input == [habitId |-> "h1", date |-> now, count |-> count]
           IN  IF ~UpsertInputValid(input)
               THEN /\ Respond("upsert", input, [code |-> "BAD_REQUEST"])
                    /\ UNCHANGED db
               ELSE LET r == Upsert(habits, db, SessionUser, stz, input)
                    IN  /\ db' = r.db
                        /\ Respond("upsert", input, [code |-> r.code, data |-> {r.data}])
    /\ UNCHANGED <<clientVars, habits, calls>>

\* increment is parsed, then runs up to its findUnique
SubmitIncrement ==
    /\ MayCall
    /\ \E given \in IncrementInputs :
           LET input == Parsed(given, [amount |-> DefaultAmount])
           IN  IF ~IncrementInputValid(given)
               THEN /\ Respond("increment", given, [code |-> "BAD_REQUEST"])
                    /\ UNCHANGED calls
               ELSE /\ calls' = calls \cup {[k |-> Started + 1, input |-> input,
                                             found |-> IncrementFind(habits, db, SessionUser, stz, now, input)]}
                    /\ UNCHANGED response
    /\ UNCHANGED <<clientVars, db, habits>>

BoundaryNext ==
    \/ SubmitHabitCreate
    \/ SubmitHabitUpdate
    \/ SubmitUpsert
    \/ SubmitIncrement
    \/ IncrementReturns

SpecBoundary == BoundaryInit /\ [][BoundaryNext]_vars

\* what the schemas are there to keep out of the tables
HabitRowValid(h) ==
    /\ Len(h.name) >= 1
    /\ h.dailyGoal >= 1
    /\ Len(h.color) = 7 /\ h.color[1] = "#"
    /\ \A i \in 2..7 : \E v \in 1..16 : h.color[i] = UpperDigits[v] \/ h.color[i] = LowerDigits[v]

StoreValid == (\A h \in habits : HabitRowValid(h)) /\ (\A e \in db : e.count >= 0)

\* an input that would put an invalid value into a table
Violating(op, input) ==
    \/ op \in {"habit.create", "habit.update"} /\ Has(input, "name") /\ Len(input.name) = 0
    \/ op \in {"habit.create", "habit.update"} /\ Has(input, "dailyGoal") /\ input.dailyGoal < 1
    \/ op \in {"habit.create", "habit.update"} /\ Has(input, "color")
           /\ ~(Len(input.color) = 7 /\ input.color[1] = "#" /\ \A i \in 2..7 : IsHexDigit(input.color[i]))
    \/ op = "upsert" /\ input.count < 0
    \/ op = "increment" /\ Has(input, "amount") /\ input.amount < 0

\* a call with such an input is refused and both tables are left as they were
ViolatingRejected ==
    (Answered /\ Violating(response'.op, response'.input)) =>
        /\ response'.result.code = "BAD_REQUEST"
        /\ habits' = habits
        /\ db' = db

(***************************************************************************)
(* C22: in every reachable state of the tables every habit has a non-empty *)
(* name, dailyGoal >= 1 and a colour "#" followed by six hex digits, and   *)
(* every entry has count >= 0; habit create and update, entry upsert and   *)
(* increment refuse an input that would break this and change nothing.     *)
(***************************************************************************)
C22_StoreStaysValid == []StoreValid /\ [][ViolatingRejected]_vars

\* a habit was created and the goal of another raised, then a create with a
\* bad colour was refused
C22_Witness ==
    /\ pc = "server"
    /\ response.n = MaxCalls
    /\ response.op = "habit.create"
    /\ Has(response.input, "color") /\ ~MatchesColor(response.input.color)
    /\ response.result.code = "BAD_REQUEST"
    /\ Cardinality(habits) = 2
    /\ \E h \in habits : h.id = "h1" /\ h.dailyGoal = MaxGoal

(***************************************************************************)
(* HabitsDashboard with the habits of the signed-in user: the list query,  *)
(* one getLastNDays query per habit of the list, the year selector and one *)
(* HabitHeatmap per habit.  Every change of a query or of the selected     *)
(* year renders the component again.                                       *)
(***************************************************************************)
\* orderBy: { createdAt: "desc" }
RECURSIVE OrderByCreatedAtDesc(_)
OrderByCreatedAtDesc(S) ==
    IF S = {} THEN <<>>
    ELSE LET first == CHOOSE h \in S : \A o \in S : h.createdAt >= o.createdAt
         IN  <<first>> \o OrderByCreatedAtDesc(S \ {first})

\* habit.getAllActive
GetAllActive(rows, user) ==
    OrderByCreatedAtDesc({h \in rows : h.userId = user /\ h.isActive})

\* entries.reduce((earliestEntry, entry) => entry.date < earliestEntry.date ? entry : earliestEntry)
RECURSIVE ReduceEarliest(_, _)
ReduceEarliest(earliestEntry, es) ==
    IF es = <<>> THEN earliestEntry
    ELSE ReduceEarliest(IF Head(es).date < earliestEntry.date THEN Head(es) ELSE earliestEntry,
                        Tail(es))

\* habitEntriesQueries.forEach(...) of earliestYear, from the value earliest on
RECURSIVE ForEachQuery(_, _, _)
ForEachQuery(queries, zone, earliest) ==
    IF queries = <<>> THEN earliest
    ELSE LET es == IF Head(queries).defined THEN Head(queries).value ELSE <<>>
             year == GetFullYear(zone, ReduceEarliest(Head(es), Tail(es)).date)
         IN  ForEachQuery(Tail(queries), zone,
                          IF es # <<>> /\ year < earliest THEN year ELSE earliest)

\* the function earliestYear memoises
EarliestYear(queries, zone, clock) == ForEachQuery(queries, zone, GetFullYear(zone, clock))

\* the function availableYears memoises
AvailableYears(earliestYear, zone, clock) ==
    LET currentYear == GetFullYear(zone, clock)
    IN  [k \in 1..(currentYear - earliestYear + 1) |-> earliestYear + (k - 1)]

\* the memo before the first render: no year is remembered
FirstRender == [earliestYear |-> Null, availableYears |-> <<>>]

\* a render: earliestYear is computed from the queries, availableYears again
\* only when earliestYear differs from the one of the render before
UseMemo(last, queries, zone, clock) ==
    LET earliestYear == EarliestYear(queries, zone, clock)
    IN  [earliestYear |-> earliestYear,
         availableYears |-> IF last.earliestYear = earliestYear
                            THEN last.availableYears
                            ELSE AvailableYears(earliestYear, zone, clock)]

\* the entries HabitsDashboard hands to the heat map of the i-th habit
EntriesOf(i) == IF entriesQueries[i].defined THEN entriesQueries[i].value ELSE <<>>

\* what HabitsDashboard returns
DashboardView ==
    IF habitsQuery.isLoading THEN [kind |-> "pulse"]
    ELSE IF Len(habitsQuery.data) = 0 THEN [kind |-> "createFirst"]
    ELSE [kind |-> "habits",
          years |-> memo.availableYears,
          heatmaps |-> [i \in 1..Len(habitsQuery.data) |->
                           [kind |-> "HabitHeatmap",
                            habitId |-> habitsQuery.data[i].id,
                            heatmapData |-> HeatmapData(habitsQuery.data[i], EntriesOf(i), days,
                                                        selectedYear, tz, now)]]]

\* The tables of a dashboard: habits of the signed-in user, one of them
\* archived, and a habit of another user.
DashboardHabits ==
    LET foreign == [id |-> "h2", userId |-> OtherUser, isActive |-> TRUE, dailyGoal |-> 1, createdAt |-> 1]
        first == [id |-> "h1", userId |-> SessionUser, isActive |-> TRUE, dailyGoal |-> MaxGoal, createdAt |-> 2]
        archived == [id |-> "h4", userId |-> SessionUser, isActive |-> FALSE, dailyGoal |-> 1, createdAt |-> 3]
        second == [id |-> "h5", userId |-> SessionUser, isActive |-> TRUE, dailyGoal |-> 1, createdAt |-> 4]
    IN  {{foreign}, {foreign, first}, {foreign, first, archived, second}}

\* entries stored before the dashboard opens, dated at the server's midnight
\* of the days today - back
DashboardEntries(zone, clock) ==
    LET row(id, habitId, back, c) ==
            [id |-> id, habitId |-> habitId,
             date |-> AddDays(zone, SetHoursZero(zone, clock), 0 - back), count |-> c]
        some == {row(1, "h1", 0, 1), row(2, "h1", 2, 2), row(3, "h1", MaxDays + 1, 1), row(4, "h2", 0, 1)}
    IN  {{}, some, some \cup {row(5, "h5", 1, 1), row(6, "h4", 0, 1)}}

\* the dashboard opens on the last day of 2023 or on the second day of 2024
DashboardClocks(zone) ==
    {FromLocal(zone, HoursPerDay * DayOf(2023, 11, 31) + 15),
     FromLocal(zone, HoursPerDay * DayOf(2024, 0, 2) + 15)}

DashboardInit ==
    /\ tz \in {UTC, NewYork}
    /\ stz = tz
    /\ now \in DashboardClocks(tz)
    /\ habit = [id |-> "h1", dailyGoal |-> MaxGoal]
    /\ days \in 1..MaxDays
    /\ selectedYear = Null
    /\ entries = <<>>
    /\ heatmapData = <<>>
    /\ pc = "dashboard"
    /\ habits \in DashboardHabits
    /\ db \in DashboardEntries(stz, now)
    /\ queryData = [defined |-> FALSE, value |-> <<>>]
    /\ fetch = [status |-> "idle"]
    /\ mutations = <<>>
    /\ clicks = 0
    /\ error = ""
    /\ timers = <<>>
    /\ calls = {}
    /\ response = [n |-> 0]
    /\ background = Null
    /\ habitsQuery = [isLoading |-> TRUE]
    /\ entriesQueries = <<>>
    /\ memo = UseMemo(FirstRender, <<>>, tz, now)
    /\ celebration = Null

dashboardFrame == <<tz, stz, habit, days, entries, heatmapData, pc, db, queryData, fetch,
                    mutations, clicks, error, timers, habits, calls, response, background,
                    celebration>>

\* habit.getAllActive answers: the list is there, one entries query per habit starts
ServeGetAllActive ==
    /\ pc = "dashboard"
    /\ habitsQuery.isLoading
    /\ LET data == GetAllActive(habits, SessionUser)
       IN  /\ habitsQuery' = [isLoading |-> FALSE, data |-> data]
           /\ entriesQueries' = [i \in 1..Len(data) |->
                                    [habitId |-> data[i].id, defined |-> FALSE, value |-> <<>>]]
    /\ memo' = UseMemo(memo, entriesQueries', tz, now)
    /\ UNCHANGED <<dashboardFrame, now, selectedYear>>

\* the getLastNDays query of the i-th habit answers
ServeEntries(i) ==
    /\ pc = "dashboard"
    /\ ~entriesQueries[i].defined
    /\ LET r == GetLastNDays(habits, db, SessionUser, stz, now,
                             [habitId |-> entriesQueries[i].habitId, days |-> days])
       IN  /\ r.code = "OK"
           /\ entriesQueries' = [entriesQueries EXCEPT ![i].defined = TRUE, ![i].value = r.data]
    /\ memo' = UseMemo(memo, entriesQueries', tz, now)
    /\ UNCHANGED <<dashboardFrame, now, selectedYear, habitsQuery>>

\* onChange of the year selector: "" is the rolling view
SelectYear ==
    /\ pc = "dashboard"
    /\ DashboardView.kind = "habits"
    /\ \E option \in {Null} \cup {memo.availableYears[k] : k \in 1..Len(memo.availableYears)} :
           /\ option # selectedYear
           /\ selectedYear' = option
    /\ memo' = UseMemo(memo, entriesQueries, tz, now)
    /\ UNCHANGED <<dashboardFrame, now, habitsQuery, entriesQueries>>

DashboardNext ==
    \/ ServeGetAllActive
    \/ \E i \in 1..Len(entriesQueries) : ServeEntries(i)
    \/ SelectYear

SpecDashboard == DashboardInit /\ [][DashboardNext]_vars

\* the non-null cells of a grid
CellsOf(grid) == {grid[w][i] : w \in 1..Len(grid), i \in 1..7} \ {NullCell}

\* the calendar days of the active window
ActiveWindow ==
    IF selectedYear = Null
    THEN (LocalDay(tz, now) - (days - 1))..LocalDay(tz, now)
    ELSE DayOf(selectedYear, 0, 1)..DayOf(selectedYear, 11, 31)

(***************************************************************************)
(* C23: for each active habit whose entries query has answered, every      *)
(* stored entry of the habit dated inside the active window - the last N   *)
(* days in the rolling view, the selected year in the year view - is shown *)
(* by the habit's grid in the cell of its date with its stored count.      *)
(***************************************************************************)
C23_WindowEntriesShown ==
    (pc = "dashboard" /\ DashboardView.kind = "habits") =>
        LET view == DashboardView
        IN  \A i \in 1..Len(view.heatmaps) :
                entriesQueries[i].defined =>
                    LET cells == CellsOf(view.heatmaps[i].heatmapData)
                    IN  \A e \in db :
                            (e.habitId = view.heatmaps[i].habitId /\ LocalDay(stz, e.date) \in ActiveWindow)
                                => \E cell \in cells : /\ LocalDay(tz, cell.date) = LocalDay(stz, e.date)
                                                       /\ cell.count = e.count

(***************************************************************************)
(* C24: while the entries query of a habit has not answered, the dashboard *)
(* shows a loading placeholder for that habit and no grid; a habit whose   *)
(* query has answered is shown as the heat map of its entries, also while  *)
(* the query of another habit is unanswered.                               *)
(***************************************************************************)
C24_LoadingPlaceholder ==
    (pc = "dashboard" /\ DashboardView.kind = "habits") =>
        LET view == DashboardView
        IN  \A i \in 1..Len(view.heatmaps) :
                IF ~entriesQueries[i].defined
                THEN /\ view.heatmaps[i].kind = "pulse"
                     /\ "heatmapData" \notin DOMAIN view.heatmaps[i]
                ELSE /\ view.heatmaps[i].kind = "HabitHeatmap"
                     /\ view.heatmaps[i].heatmapData
                            = HeatmapData(habitsQuery.data[i], entriesQueries[i].value, days,
                                          selectedYear, tz, now)

\* midnight of New Year passes while the dashboard is open: nothing renders
NewYear ==
    /\ pc = "dashboard"
    /\ GetFullYear(tz, now) = 2023
    /\ now' = AddDays(tz, now, 1)
    /\ UNCHANGED <<dashboardFrame, selectedYear, habitsQuery, entriesQueries, memo>>

YearsNext == DashboardNext \/ NewYear

SpecYears == DashboardInit /\ [][YearsNext]_vars

\* the calendar years of the entries the queries have loaded
LoadedYears(queries) ==
    UNION {{YearOf(LocalDay(tz, queries[i].value[k].date)) : k \in 1..Len(queries[i].value)} :
              i \in {j \in 1..Len(queries) : queries[j].defined}}

\* a step that renders the dashboard
Renders == memo' # memo \/ habitsQuery' # habitsQuery \/ entriesQueries' # entriesQueries
               \/ selectedYear' # selectedYear

\* the years the claim gives for the queries and the clock of a render
YearsAsClaimed(m, queries, clock) ==
    LET currentYear == YearOf(LocalDay(tz, clock))
        years == {currentYear} \cup LoadedYears(queries)
        earliest == CHOOSE y \in years : \A o \in years : y <= o
    IN  /\ m.earliestYear = earliest
        /\ m.availableYears = [k \in 1..(currentYear - earliest + 1) |-> earliest + (k - 1)]
        /\ \E k \in 1..Len(m.availableYears) : m.availableYears[k] = currentYear

(***************************************************************************)
(* C25: at every render earliestYear is the least of the current year and  *)
(* the calendar years of the entries loaded for all habits, and the year   *)
(* selector offers the years earliestYear .. currentYear in ascending      *)
(* order, the current year among them; computing them starts no query.     *)
(***************************************************************************)
C25_YearSelector ==
    [][Renders =>
         /\ YearsAsClaimed(memo', entriesQueries', now')
         /\ selectedYear' # selectedYear
                => UNCHANGED <<habitsQuery, entriesQueries, fetch, calls, response, db>>]_vars

(***************************************************************************)
(* HabitCellCelebration: its props, its shouldCelebrate state and the      *)
(* effect with the dependencies [isGoalMet, wasGoalMet].  React runs the   *)
(* effect after the first render and after every render in which a         *)
(* dependency changed, the clean-up of the effect before first.            *)
(***************************************************************************)
MaxRenders == 6

\* wasGoalMet = false: the default of the prop the parent leaves out
WasGoalMet(props) == IF Has(props, "wasGoalMet") THEN props.wasGoalMet ELSE FALSE

\* the props a parent may pass: wasGoalMet and habitColor are optional
CelebrationProps ==
    LET goal == {[isGoalMet |-> g] : g \in BOOLEAN}
                    \cup {[isGoalMet |-> g, wasGoalMet |-> w] : g \in BOOLEAN, w \in BOOLEAN}
    IN  goal \cup {Parsed(props, [habitColor |-> DefaultColor]) : props \in goal}

\* the body of the effect: cleanup tells whether it returned a clean-up
RunEffect(c) ==
    IF c.props.isGoalMet /\ ~WasGoalMet(c.props)
    THEN [c EXCEPT !.shouldCelebrate = TRUE, !.timeout = TRUE, !.cleanup = TRUE]
    ELSE [c EXCEPT !.cleanup = FALSE]

\* () => clearTimeout(timeout), when the effect returned it
CleanUp(c) == IF c.cleanup THEN [c EXCEPT !.timeout = FALSE] ELSE c

CelebrationInit ==
    /\ tz = UTC
    /\ stz = UTC
    /\ now = HoursPerDay * DayOf(2024, 0, 3)
    /\ habit = [id |-> "h1", dailyGoal |-> 1]
    /\ days = MaxDays
    /\ selectedYear = Null
    /\ entries = <<>>
    /\ heatmapData = <<>>
    /\ pc = "celebration"
    /\ db = {}
    /\ queryData = [defined |-> FALSE, value |-> <<>>]
    /\ fetch = [status |-> "idle"]
    /\ mutations = <<>>
    /\ clicks = 0
    /\ error = ""
    /\ timers = <<>>
    /\ habits = {}
    /\ calls = {}
    /\ response = [n |-> 0]
    /\ background = Null
    /\ habitsQuery = Null
    /\ entriesQueries = <<>>
    /\ memo = Null
    /\ celebration = [mounted |-> FALSE, renders |-> 0]

celebrationFrame == <<now, tz, stz, habit, days, selectedYear, entries, heatmapData, pc,
                      db, queryData, fetch, mutations, clicks, error, timers,
                      habits, calls, response, background, habitsQuery, entriesQueries, memo>>

\* the first render: useState(false), then the effect
Mount ==
    /\ pc = "celebration"
    /\ ~celebration.mounted
    /\ \E props \in CelebrationProps :
           celebration' = RunEffect([mounted |-> TRUE, renders |-> 1, props |-> props,
                                     shouldCelebrate |-> FALSE, timeout |-> FALSE, cleanup |-> FALSE])
    /\ UNCHANGED celebrationFrame

\* the parent renders the component with other props
Rerender ==
    /\ pc = "celebration"
    /\ celebration.mounted
    /\ celebration.renders < MaxRenders
    /\ \E props \in CelebrationProps \ {celebration.props} :
           LET rendered == [celebration EXCEPT !.props = props, !.renders = @ + 1]
               changed == \/ props.isGoalMet # celebration.props.isGoalMet
                          \/ WasGoalMet(props) # WasGoalMet(celebration.props)
           IN  celebration' = IF changed THEN RunEffect(CleanUp(rendered)) ELSE rendered
    /\ UNCHANGED celebrationFrame

\* the 1100 ms timeout fires: () => setShouldCelebrate(false)
TimeoutFires ==
    /\ pc = "celebration"
    /\ celebration.mounted
    /\ celebration.timeout
    /\ celebration' = [celebration EXCEPT !.shouldCelebrate = FALSE, !.timeout = FALSE]
    /\ UNCHANGED celebrationFrame

CelebrationNext == Mount \/ Rerender \/ TimeoutFires

SpecCelebration == CelebrationInit /\ [][CelebrationNext]_vars

\* a timeout that is set and not cleared fires
LiveCelebration == SpecCelebration /\ WF_vars(TimeoutFires)

\* shouldCelebrate as the Confetti below is given it
Trigger(c) == c.mounted /\ c.shouldCelebrate

(***************************************************************************)
(* C26: shouldCelebrate turns on only when the goal changes from not met   *)
(* to met after the component has mounted: never in the first render,      *)
(* whatever isGoalMet is at first and whether or not wasGoalMet is passed. *)
(***************************************************************************)
C26_CelebratesOnlyOnChange ==
    [][(~Trigger(celebration) /\ Trigger(celebration')) =>
          /\ celebration.mounted
          /\ ~celebration.props.isGoalMet
          /\ celebration'.props.isGoalMet]_vars

(***************************************************************************)
(* C30: whenever shouldCelebrate is true it becomes false again, the       *)
(* 1100 ms timeout resetting it, whatever props the parent passes before   *)
(* the timeout fires.                                                      *)
(***************************************************************************)
C30_CelebrationEnds == Trigger(celebration) ~> ~Trigger(celebration)

(***************************************************************************)
(* The dashboard with one habit in London on the day after the clocks went *)
(* forward, browser and server in one time zone.                           *)
(***************************************************************************)
ClickDeployments == {[tz |-> London, stz |-> London, day |-> DayOf(2024, 3, 1)]}

ClickInit ==
    /\ \E d \in ClickDeployments :
           tz = d.tz /\ stz = d.stz /\ now = FromLocal(d.tz, HoursPerDay * d.day + 15)
    /\ habit = [id |-> "h1", dailyGoal |-> 1]
    /\ days = MaxDays
    /\ selectedYear = Null
    /\ entries = <<>>
    /\ heatmapData = <<>>
    /\ pc = "dashboard"
    /\ db \in InitialTables(tz, stz, now, habit.dailyGoal)
    /\ queryData = [defined |-> FALSE, value |-> <<>>]
    /\ fetch = [status |-> "sent", by |-> 0]
    /\ mutations = <<>>
    /\ clicks = 0
    /\ error = ""
    /\ timers = <<>>
    /\ habits = HabitRows
    /\ calls = {}
    /\ response = [n |-> 0]
    /\ background = Null
    /\ habitsQuery = Null
    /\ entriesQueries = <<>>
    /\ memo = Null
    /\ celebration = Null

SpecClicks == ClickInit /\ [][Next]_vars

(***************************************************************************)
(* C27: a click on a cell whose date is not the current calendar date      *)
(* changes nothing - the cached entries, the error state and the mutations *)
(* in flight stay as they are - and a null cell takes no click: every      *)
(* count that changes is the one of today's date.                          *)
(***************************************************************************)
C27_OnlyTodayClickable ==
    [][/\ \A day \in GridCells :
              (OnClick(day) /\ LocalDay(tz, day.date) # LocalDay(tz, now))
                  => UNCHANGED <<queryData, error, mutations>>
       /\ IsClick => LocalDay(tz, Sent.input.date) = LocalDay(tz, now)]_vars

(***************************************************************************)
(* C28: the message a failed mutation sets is cleared by the timer that    *)
(* failure started, never by the timer of an earlier failure.  A message   *)
(* on screen is the one of the latest failure, whose timer is the last one *)
(* set: a timer that clears a message is the only one pending.             *)
(***************************************************************************)
C28_TimerOfItsFailure ==
    [][(ClearError /\ error # "") => Len(timers) = 1]_vars

(***************************************************************************)
(* C29: the cached entry list holds at most one entry for a calendar date; *)
(* a click's optimistic update changes only the count of the cached entry  *)
(* of the clicked date, or appends one temporary entry when no cached      *)
(* entry has that date, and leaves the entries of other dates as they are. *)
(***************************************************************************)
C29_OneEntryPerDate ==
    /\ [](\A i, j \in 1..Len(queryData.value) :
              LocalDay(tz, queryData.value[i].date) = LocalDay(tz, queryData.value[j].date)
                  => i = j)
    /\ [][(IsClick /\ queryData.defined) =>
              LET old == queryData.value
                  new == queryData'.value
                  same == {i \in 1..Len(old) :
                               LocalDay(tz, old[i].date) = LocalDay(tz, Sent.input.date)}
              IN  IF same # {}
                  THEN /\ Len(new) = Len(old)
                       /\ \A i \in 1..Len(old) :
                              new[i] = IF i \in same
                                       THEN [old[i] EXCEPT !.count = Sent.input.count]
                                       ELSE old[i]
                  ELSE new = Append(old, [id |-> TempId, habitId |-> habit.id,
                                          date |-> Sent.input.date,
                                          count |-> Sent.input.count])]_vars

====
